---- MODULE Spec2Model ----
(***************************************************************************)
(* The client-side store of CourseSys (AppProvider in src/supabaseClient.ts *)
(* lines 54-355): a local snapshot (teachers, assistants, courses,          *)
(* sessions), the Loader (fetchData), the per-entity mutators, importData,  *)
(* and the remote tables the store writes to.                               *)
(*                                                                         *)
(* Numbers: durationHours is counted in thousandths of an hour (1.5 h is    *)
(* 1500) and totalHours in hundredths (3.83 h is 383), so that              *)
(* parseFloat(x.toFixed(2)) is a rounding of integers.                      *)
(***************************************************************************)
EXTENDS Integers, Sequences, FiniteSets, TLC

\* ------------------------------------------------------------------ bounds
MaxWork == 2      \* records handed to the store in one behaviour
MaxInflight == 2  \* remote calls in flight at once
MaxLen == 2       \* length of the collections handed to the Aggregator alone

\* ------------------------------------------------------------- JS values
Absent == -1      \* a field that is undefined (or null in a remote row)
NaN == -2         \* the result of Number() on a non-numeric value
NonNumeric == -3  \* a non-empty string that is not a number, such as "abc"

Ids == {1, 2}                  \* the ids the callers and the remote rows use
Tags == {1, 2}                 \* the remaining profile / metadata fields
Durations == {1500, 2333}      \* 1.5 h and 2.333 h
Outcomes == {"ok", "error", "throw"}
Tables == {"people", "courses", "sessions"}

\* One record shape for every entity (the store handles import data as any).
Item(id, type, tag, courseId, tIds, aIds, sc, th, seq, dur) ==
  [id |-> id, type |-> type, tag |-> tag, courseId |-> courseId,
   teacherIds |-> tIds, assistantIds |-> aIds,
   sessionCount |-> sc, totalHours |-> th,
   sequence |-> seq, durationHours |-> dur]

\* Arrays of ids: 10 is [], 10 + x is [x]; a value below 10 is a scalar.
EmptyArr == 10
IsArray(v) == v >= EmptyArr

Person(id, type, tag) ==
  Item(id, type, tag, Absent, Absent, Absent, Absent, Absent, Absent, Absent)
Course(id, tag, sc, th) ==
  Item(id, "none", tag, Absent, EmptyArr, EmptyArr, sc, th, Absent, Absent)
Session(id, courseId, dur) ==
  Item(id, "none", 1, courseId, EmptyArr, EmptyArr, Absent, Absent, 1, dur)

\* ---------------------------------------------------------------- helpers
RECURSIVE SumHours(_)
\* reduce((sum, s) => sum + (Number(s.durationHours) || 0), 0)
Num0(d) == IF d \in {Absent, NaN, NonNumeric} THEN 0 ELSE d
SumHours(ss) ==
  IF ss = <<>> THEN 0 ELSE Num0(Head(ss).durationHours) + SumHours(Tail(ss))

\* parseFloat(totalHours.toFixed(2)): thousandths to the nearest hundredth
ToFixed2(x) == (x + 5) \div 10

SessionsOf(sessions, courseId) ==
  SelectSeq(sessions, LAMBDA s: s.courseId = courseId)

WithStats(c, cSessions) ==
  [c EXCEPT !.sessionCount = Len(cSessions),
            !.totalHours = ToFixed2(SumHours(cSessions))]

\* mutant: the sum is kept unrounded to the hundredth (truncated instead)
recalculateCourseStats_truncates(courses, sessions, courseId) ==
  [i \in DOMAIN courses |->
     IF courses[i].id # courseId THEN courses[i]
     ELSE [courses[i] EXCEPT
             !.sessionCount = Len(SessionsOf(sessions, courseId)),
             !.totalHours = SumHours(SessionsOf(sessions, courseId)) \div 10]]

\* mutant: the stats are added to the ones the course already holds
recalculateCourseStats_accumulates(courses, sessions, courseId) ==
  [i \in DOMAIN courses |->
     IF courses[i].id # courseId THEN courses[i]
     ELSE [courses[i] EXCEPT
             !.sessionCount = @ + Len(SessionsOf(sessions, courseId)),
             !.totalHours = @ + ToFixed2(SumHours(SessionsOf(sessions, courseId)))]]

recalculateCourseStats(courses, sessions, courseId) ==
  [i \in DOMAIN courses |->
     IF courses[i].id # courseId THEN courses[i]
     ELSE WithStats(courses[i], SessionsOf(sessions, courseId))]

\* mutant: only the courses that still have sessions are recomputed
RecomputeAll_referenced(courses, sessions) ==
  [i \in DOMAIN courses |->
     IF SessionsOf(sessions, courses[i].id) = <<>> THEN courses[i]
     ELSE WithStats(courses[i], SessionsOf(sessions, courses[i].id))]

\* courses.map(c => ({...c, sessionCount, totalHours})) over every course
RecomputeAll(courses, sessions) ==
  [i \in DOMAIN courses |->
     WithStats(courses[i], SessionsOf(sessions, courses[i].id))]

IdsOf(s) == {s[i].id : i \in DOMAIN s}

\* every order in which a select without ORDER BY may return the rows
Orders(S) ==
  {s \in [1..Cardinality(S) -> S] : \A i, j \in DOMAIN s : i # j => s[i] # s[j]}

RemoveAt(s, i) == SubSeq(s, 1, i - 1) \o SubSeq(s, i + 1, Len(s))

\* ------------------------------------------------------------------ state
VARIABLES
  isLoading,    \* the loading flag
  teachers, assistants, courses, sessions,   \* the local snapshot (AppState)
  scheduleParams,   \* the parameters of the schedule view (AppState)
  remote,       \* the remote tables: people, courses, sessions (sets of rows)
  reads,        \* the Loader's three reads: pending, or how each settled
  inflight,     \* the remote calls in flight, in the order they were issued
  uuids,        \* how many ids crypto.randomUUID() has handed out
  work,         \* records handed to the store so far
  last          \* the step last taken: its handler, its input, how it ended

local == <<teachers, assistants, courses, sessions>>
vars == <<isLoading, teachers, assistants, courses, sessions, scheduleParams,
          remote, reads, inflight, uuids, work, last>>

NoItem == Person(Absent, "none", Absent)

\* What the last step was. A call step runs a handler up to its first await
\* (pc "call"); a settle step delivers the result of one remote call (pc is
\* the call that settled, out how it settled). effect is what the step let
\* out: "none", "warn" (console.warn), "log" (console.error), "alert" (the
\* deferred notification), "reject" (nothing caught the rejection: the
\* handler's promise rejects).
Ev(fn, kind, item, data, mode, pc, out, effect) ==
  [fn |-> fn, kind |-> kind, item |-> item, data |-> data, mode |-> mode,
   pc |-> pc, out |-> out, effect |-> effect]
Call(fn, item) == Ev(fn, "none", item, <<>>, "none", "call", "none", "none")
Settled(fn, kind, pc, out, effect) ==
  Ev(fn, kind, NoItem, <<>>, "none", pc, out, effect)

Task(fn, pc, table, rows, key, ptype) ==
  [fn |-> fn, pc |-> pc, table |-> table, rows |-> rows, key |-> key,
   ptype |-> ptype]

DB(P, C, S) == [people |-> P, courses |-> C, sessions |-> S]

\* scheduleParams: months are numbered, 0 is the empty string
Params(startMonth, endMonth, selectedPersonId) ==
  [startMonth |-> startMonth, endMonth |-> endMonth,
   selectedPersonId |-> selectedPersonId]

\* initialState.scheduleParams: the current month, no end, nobody selected
InitialParams == Params(1, 0, 0)

InitWith(DBs) ==
  /\ isLoading = TRUE
  /\ teachers = <<>> /\ assistants = <<>> /\ courses = <<>> /\ sessions = <<>>
  /\ scheduleParams = InitialParams
  /\ remote \in DBs
  /\ reads = [t \in Tables |-> [st |-> "pending", data |-> <<>>]]
  /\ inflight = <<>>
  /\ uuids = 0
  /\ work = 0
  /\ last = Call("mount", NoItem)

\* ----------------------------------------------------------------- Loader
\* The local collections fetchData sets from the three settled reads.
FetchCourses(coursesRaw, ss) ==
  [i \in DOMAIN coursesRaw |->
     WithStats(coursesRaw[i], SessionsOf(ss, coursesRaw[i].id))]

\* peopleRes.data || []
DataOf(rs, t) == IF rs[t].st = "ok" THEN rs[t].data ELSE <<>>

\* the reads once fetchData has returned: their results are dropped
Done == [t \in Tables |-> [st |-> "done", data |-> <<>>]]

\* mutant: no finally: a rejected read leaves the loading flag as it was
ReadSettle_noFinally(t, out) ==
  /\ isLoading
  /\ reads[t].st = "pending"
  /\ \E data \in Orders(remote[t]) :
       LET rs == [reads EXCEPT ![t] = [st |-> out,
                     data |-> IF out = "ok" THEN data ELSE <<>>]]
           settled == \A u \in Tables : rs[u].st \in {"ok", "error"}
       IN IF out = "throw"
          THEN /\ reads' = Done
               /\ UNCHANGED <<isLoading, local>>
               /\ last' = Settled("fetchData", t, "read", out, "log")
          ELSE IF settled
          THEN /\ reads' = Done
               /\ teachers' = SelectSeq(DataOf(rs, "people"),
                                    LAMBDA p: p.type = "Teacher")
               /\ assistants' = SelectSeq(DataOf(rs, "people"),
                                    LAMBDA p: p.type = "TA")
               /\ courses' = FetchCourses(DataOf(rs, "courses"),
                                          DataOf(rs, "sessions"))
               /\ sessions' = DataOf(rs, "sessions")
               /\ isLoading' = FALSE
               /\ last' = Settled("fetchData", t, "read", out,
                             IF \E u \in Tables : rs[u].st = "error"
                             THEN "warn" ELSE "none")
          ELSE /\ reads' = rs
               /\ UNCHANGED <<isLoading, local>>
               /\ last' = Settled("read", t, "read", out, "none")
  /\ UNCHANGED <<scheduleParams, remote, inflight, uuids, work>>

\* One read settles. Promise.all rejects with the first read that rejects
\* and resolves when the last of the three has fulfilled; the continuation
\* of fetchData runs in the same turn.
ReadSettle(t, out) ==
  /\ isLoading
  /\ reads[t].st = "pending"
  /\ \E data \in Orders(remote[t]) :
       LET rs == [reads EXCEPT ![t] = [st |-> out,
                     data |-> IF out = "ok" THEN data ELSE <<>>]]
           settled == \A u \in Tables : rs[u].st \in {"ok", "error"}
       IN IF out = "throw"
          THEN \* catch: console.error; finally: setIsLoading(false)
               /\ reads' = Done
               /\ isLoading' = FALSE
               /\ UNCHANGED local
               /\ last' = Settled("fetchData", t, "read", out, "log")
          ELSE IF settled
          THEN /\ reads' = Done
               /\ teachers' = SelectSeq(DataOf(rs, "people"),
                                    LAMBDA p: p.type = "Teacher")
               /\ assistants' = SelectSeq(DataOf(rs, "people"),
                                    LAMBDA p: p.type = "TA")
               /\ courses' = FetchCourses(DataOf(rs, "courses"),
                                          DataOf(rs, "sessions"))
               /\ sessions' = DataOf(rs, "sessions")
               /\ isLoading' = FALSE
               /\ last' = Settled("fetchData", t, "read", out,
                             IF \E u \in Tables : rs[u].st = "error"
                             THEN "warn" ELSE "none")
          ELSE /\ reads' = rs
               /\ UNCHANGED <<isLoading, local>>
               /\ last' = Settled("read", t, "read", out, "none")
  /\ UNCHANGED <<scheduleParams, remote, inflight, uuids, work>>

Loader == \E t \in Tables, out \in Outcomes : ReadSettle(t, out)

\* --------------------------------------------------------------- mutators
\* The presentation layer renders the managers, and so issues operations,
\* only once loading has finished (src/App.tsx lines 26-33).
CanIssue(n) ==
  ~isLoading /\ work + n <= MaxWork /\ Len(inflight) < MaxInflight

\* The handler runs up to its first await: the remote call is in flight.
Issue(task, n) ==
  /\ inflight' = Append(inflight, task)
  /\ work' = work + n

\* const { id, ...updates } = x
WithoutId(x) == [x EXCEPT !.id = Absent]

PersonPayloads == {Person(i, t, g) : i \in Ids, t \in {"Teacher", "TA"}, g \in Tags}
\* A course payload carries whatever stats the caller holds.
CoursePayloads ==
  {Course(i, st[1], st[2], st[3]) : i \in Ids, st \in {<<1, 0, 0>>, <<2, 3, 999>>}}
SessionPayloads == {Session(i, c, d) : i \in Ids, c \in Ids, d \in Durations}

Replace(coll, x) == [i \in DOMAIN coll |-> IF coll[i].id = x.id THEN x ELSE coll[i]]

\* add(entity): the entity carries an identifier no local record has yet.
AddPerson(p) ==
  /\ CanIssue(1)
  /\ p.id \notin IdsOf(teachers) \cup IdsOf(assistants)
  /\ IF p.type = "Teacher"
     THEN teachers' = Append(teachers, p) /\ UNCHANGED assistants
     ELSE assistants' = Append(assistants, p) /\ UNCHANGED teachers
  /\ Issue(Task("addPerson", "insert", "people", <<p>>, Absent, "none"), 1)
  /\ last' = Call("addPerson", p)
  /\ UNCHANGED <<scheduleParams, isLoading, courses, sessions, remote, reads, uuids>>

UpdatePerson(p) ==
  /\ CanIssue(1)
  /\ IF p.type = "Teacher"
     THEN teachers' = Replace(teachers, p) /\ UNCHANGED assistants
     ELSE assistants' = Replace(assistants, p) /\ UNCHANGED teachers
  /\ Issue(Task("updatePerson", "update", "people", <<WithoutId(p)>>, p.id, "none"), 1)
  /\ last' = Call("updatePerson", p)
  /\ UNCHANGED <<scheduleParams, isLoading, courses, sessions, remote, reads, uuids>>

DeletePerson(id) ==
  /\ CanIssue(1)
  /\ teachers' = SelectSeq(teachers, LAMBDA t: t.id # id)
  /\ assistants' = SelectSeq(assistants, LAMBDA a: a.id # id)
  /\ Issue(Task("deletePerson", "delete", "people", <<>>, id, "none"), 1)
  /\ last' = Call("deletePerson", Person(id, "none", Absent))
  /\ UNCHANGED <<scheduleParams, isLoading, courses, sessions, remote, reads, uuids>>

AddCourse(c) ==
  /\ CanIssue(1)
  /\ c.id \notin IdsOf(courses)
  /\ courses' = Append(courses, c)
  /\ Issue(Task("addCourse", "insert", "courses", <<c>>, Absent, "none"), 1)
  /\ last' = Call("addCourse", c)
  /\ UNCHANGED <<scheduleParams, isLoading, teachers, assistants, sessions, remote, reads, uuids>>

UpdateCourse(c) ==
  /\ CanIssue(1)
  /\ courses' = Replace(courses, c)
  /\ Issue(Task("updateCourse", "update", "courses", <<WithoutId(c)>>, c.id, "none"), 1)
  /\ last' = Call("updateCourse", c)
  /\ UNCHANGED <<scheduleParams, isLoading, teachers, assistants, sessions, remote, reads, uuids>>

\* mutant: the course is removed and its sessions are kept
DeleteCourse_keepsSessions(id) ==
  /\ CanIssue(1)
  /\ courses' = SelectSeq(courses, LAMBDA x: x.id # id)
  /\ Issue(Task("deleteCourse", "delSessions", "sessions", <<>>, id, "none"), 1)
  /\ last' = Call("deleteCourse", Person(id, "none", Absent))
  /\ UNCHANGED <<scheduleParams, isLoading, teachers, assistants, sessions, remote, reads, uuids>>

\* mutant: the course delete is issued first
DeleteCourse_courseFirst(id) ==
  /\ CanIssue(1)
  /\ courses' = SelectSeq(courses, LAMBDA x: x.id # id)
  /\ sessions' = SelectSeq(sessions, LAMBDA s: s.courseId # id)
  /\ Issue(Task("deleteCourse", "delCourse", "courses", <<>>, id, "none"), 1)
  /\ last' = Call("deleteCourse", Person(id, "none", Absent))
  /\ UNCHANGED <<scheduleParams, isLoading, teachers, assistants, remote, reads, uuids>>

DeleteCourse(id) ==
  /\ CanIssue(1)
  /\ courses' = SelectSeq(courses, LAMBDA x: x.id # id)
  /\ sessions' = SelectSeq(sessions, LAMBDA s: s.courseId # id)
  /\ Issue(Task("deleteCourse", "delSessions", "sessions", <<>>, id, "none"), 1)
  /\ last' = Call("deleteCourse", Person(id, "none", Absent))
  /\ UNCHANGED <<scheduleParams, isLoading, teachers, assistants, remote, reads, uuids>>

AddSession(s) ==
  /\ CanIssue(1)
  /\ s.id \notin IdsOf(sessions)
  /\ LET newSessions == Append(sessions, s)
     IN /\ sessions' = newSessions
        /\ courses' = recalculateCourseStats(courses, newSessions, s.courseId)
  /\ Issue(Task("addSession", "insert", "sessions", <<s>>, Absent, "none"), 1)
  /\ last' = Call("addSession", s)
  /\ UNCHANGED <<scheduleParams, isLoading, teachers, assistants, remote, reads, uuids>>

\* prev.sessions.find(x => x.id === id): the first match, or NoItem
Find(coll, id) ==
  IF id \in IdsOf(coll)
  THEN coll[CHOOSE i \in DOMAIN coll :
         coll[i].id = id /\ \A j \in 1..(i - 1) : coll[j].id # id]
  ELSE NoItem

\* mutant: only the course the session now belongs to is recomputed
UpdateSessionCourses_newOnly(cs, ss, s) ==
  recalculateCourseStats(cs, Replace(ss, s), s.courseId)

\* the courses updateSession(s) leaves
UpdateSessionCourses(cs, ss, s) ==
  LET oldSession == Find(ss, s.id)
      newSessions == Replace(ss, s)
      updatedCourses == recalculateCourseStats(cs, newSessions, s.courseId)
  IN IF oldSession # NoItem /\ oldSession.courseId # s.courseId
     THEN recalculateCourseStats(updatedCourses, newSessions, oldSession.courseId)
     ELSE updatedCourses

UpdateSession(s) ==
  /\ CanIssue(1)
  /\ sessions' = Replace(sessions, s)
  /\ courses' = UpdateSessionCourses(courses, sessions, s)
  /\ Issue(Task("updateSession", "update", "sessions", <<WithoutId(s)>>, s.id, "none"), 1)
  /\ last' = Call("updateSession", s)
  /\ UNCHANGED <<scheduleParams, isLoading, teachers, assistants, remote, reads, uuids>>

\* the courses deleteSession(id) leaves
DeleteSessionCourses(cs, ss, id) ==
  LET sessionToDelete == Find(ss, id)
      newSessions == SelectSeq(ss, LAMBDA x: x.id # id)
  IN IF sessionToDelete # NoItem
     THEN recalculateCourseStats(cs, newSessions, sessionToDelete.courseId)
     ELSE cs

DeleteSession(id) ==
  /\ CanIssue(1)
  /\ sessions' = SelectSeq(sessions, LAMBDA x: x.id # id)
  /\ courses' = DeleteSessionCourses(courses, sessions, id)
  /\ Issue(Task("deleteSession", "delete", "sessions", <<>>, id, "none"), 1)
  /\ last' = Call("deleteSession", Person(id, "none", Absent))
  /\ UNCHANGED <<scheduleParams, isLoading, teachers, assistants, remote, reads, uuids>>

\* { ...prev.scheduleParams, ...params }: the fields params defines
MergeParams(prev, params) ==
  [f \in DOMAIN prev |-> IF params[f] = Absent THEN prev[f] ELSE params[f]]

\* Partial<ScheduleParams>
ParamPayloads ==
  {Params(Absent, 2, Absent), Params(2, Absent, 1)}

\* updateScheduleParams: local only, nothing is sent
UpdateScheduleParams(params) ==
  /\ ~isLoading /\ work + 1 <= MaxWork
  /\ scheduleParams' = MergeParams(scheduleParams, params)
  /\ work' = work + 1
  /\ last' = Call("updateScheduleParams", NoItem)
  /\ UNCHANGED <<isLoading, teachers, assistants, courses, sessions, remote,
                 reads, inflight, uuids>>

\* --------------------------------------------------------- remote storage
\* What the storage collaborator does with a call that succeeds. A row is
\* sent as JSON: NaN is written as null.
ToRow(x) ==
  [x EXCEPT !.sequence = IF @ = NaN THEN Absent ELSE @,
            !.durationHours = IF @ = NaN THEN Absent ELSE @]

\* insert(rows) succeeds only if it keeps one row per id
InsertOk(T, rows) ==
  /\ \A i, j \in DOMAIN rows : i # j => rows[i].id # rows[j].id
  /\ \A i \in DOMAIN rows : \A r \in T : r.id # rows[i].id

\* update(updates).eq('id', id): the fields the payload defines are written
Patch(r, u) ==
  [id |-> r.id,
   type |-> IF u.type = "none" THEN r.type ELSE u.type,
   tag |-> IF u.tag = Absent THEN r.tag ELSE u.tag,
   courseId |-> IF u.courseId = Absent THEN r.courseId ELSE u.courseId,
   teacherIds |-> IF u.teacherIds = Absent THEN r.teacherIds ELSE u.teacherIds,
   assistantIds |-> IF u.assistantIds = Absent THEN r.assistantIds ELSE u.assistantIds,
   sessionCount |-> IF u.sessionCount = Absent THEN r.sessionCount ELSE u.sessionCount,
   totalHours |-> IF u.totalHours = Absent THEN r.totalHours ELSE u.totalHours,
   sequence |-> IF u.sequence = Absent THEN r.sequence ELSE u.sequence,
   durationHours |-> IF u.durationHours = Absent THEN r.durationHours ELSE u.durationHours]

RInsert(T, rows) == T \cup {ToRow(rows[i]) : i \in DOMAIN rows}
RUpdate(T, u, id) == {IF r.id = id THEN Patch(r, ToRow(u)) ELSE r : r \in T}
RDeleteId(T, id) == {r \in T : r.id # id}

\* mutant: a failed insert takes the added record back out of the local state
WriteSettle_rollsBack(i, out) ==
  /\ i \in DOMAIN inflight
  /\ inflight[i].pc \in {"insert", "update", "delete"}
  /\ LET t == inflight[i]
         T == remote[t.table]
         undo == out # "ok" /\ t.pc = "insert"
         keep(coll) == SelectSeq(coll, LAMBDA x: x.id # t.rows[1].id)
     IN /\ (out = "ok" /\ t.pc = "insert") => InsertOk(T, t.rows)
        /\ remote' = IF out # "ok" THEN remote
                     ELSE [remote EXCEPT ![t.table] =
                             CASE t.pc = "insert" -> RInsert(T, t.rows)
                               [] t.pc = "update" -> RUpdate(T, t.rows[1], t.key)
                               [] t.pc = "delete" -> RDeleteId(T, t.key)]
        /\ teachers' = IF undo /\ t.table = "people" THEN keep(teachers) ELSE teachers
        /\ assistants' = IF undo /\ t.table = "people" THEN keep(assistants) ELSE assistants
        /\ courses' = IF undo /\ t.table = "courses" THEN keep(courses) ELSE courses
        /\ sessions' = IF undo /\ t.table = "sessions" THEN keep(sessions) ELSE sessions
        /\ last' = Settled(t.fn, "none", t.pc, out,
                      CASE out = "ok" -> "none"
                        [] out = "error" -> "log"
                        [] out = "throw" -> "reject")
  /\ inflight' = RemoveAt(inflight, i)
  /\ UNCHANGED <<scheduleParams, isLoading, reads, uuids, work>>

\* The remote call of a one-call mutator settles: the row is written if the
\* call succeeds; an error result is logged; a rejection is not caught.
WriteSettle(i, out) ==
  /\ i \in DOMAIN inflight
  /\ inflight[i].pc \in {"insert", "update", "delete"}
  /\ LET t == inflight[i]
         T == remote[t.table]
     IN /\ (out = "ok" /\ t.pc = "insert") => InsertOk(T, t.rows)
        /\ remote' = IF out # "ok" THEN remote
                     ELSE [remote EXCEPT ![t.table] =
                             CASE t.pc = "insert" -> RInsert(T, t.rows)
                               [] t.pc = "update" -> RUpdate(T, t.rows[1], t.key)
                               [] t.pc = "delete" -> RDeleteId(T, t.key)]
        /\ last' = Settled(t.fn, "none", t.pc, out,
                      CASE out = "ok" -> "none"
                        [] out = "error" -> "log"
                        [] out = "throw" -> "reject")
  /\ inflight' = RemoveAt(inflight, i)
  /\ UNCHANGED <<scheduleParams, isLoading, local, reads, uuids, work>>

\* deleteCourse: the sessions delete is awaited and its result dropped, then
\* the course delete is issued and its error result logged.
DeleteCourseSettle(i, out) ==
  /\ i \in DOMAIN inflight
  /\ inflight[i].pc \in {"delSessions", "delCourse"}
  /\ LET t == inflight[i]
     IN IF t.pc = "delSessions"
        THEN /\ remote' = IF out # "ok" THEN remote
                          ELSE [remote EXCEPT !.sessions =
                                  {r \in @ : r.courseId # t.key}]
             /\ inflight' = IF out = "throw" THEN RemoveAt(inflight, i)
                            ELSE [inflight EXCEPT ![i].pc = "delCourse",
                                                  ![i].table = "courses"]
             /\ last' = Settled(t.fn, "none", t.pc, out,
                           IF out = "throw" THEN "reject" ELSE "none")
        ELSE /\ remote' = IF out # "ok" THEN remote
                          ELSE [remote EXCEPT !.courses = RDeleteId(@, t.key)]
             /\ inflight' = RemoveAt(inflight, i)
             /\ last' = Settled(t.fn, "none", t.pc, out,
                           CASE out = "ok" -> "none"
                             [] out = "error" -> "log"
                             [] out = "throw" -> "reject")
  /\ UNCHANGED <<scheduleParams, isLoading, local, reads, uuids, work>>

\* ------------------------------------------------------------- importData
Truthy(v) == v \notin {Absent, 0, NaN}
Number(v) == IF v = NonNumeric THEN NaN ELSE v
Uuid(n) == 100 + n

\* Array.isArray(x) ? x : (x ? [x] : [])
CoerceIds(v) == IF IsArray(v) THEN v ELSE IF Truthy(v) THEN EmptyArr + v ELSE EmptyArr

Kinds == {"teachers", "assistants", "courses", "sessions"}
Modes == {"append", "replace"}

\* mutant: the record is stored as given, with only its id filled in
ProcessItem_asGiven(type, item, uuid) ==
  [item EXCEPT !.id = IF Truthy(item.id) THEN item.id ELSE uuid]

\* one record of processedData; uuid is what crypto.randomUUID() returns
ProcessItem(type, item, uuid) ==
  LET a == [item EXCEPT !.id = IF Truthy(item.id) THEN item.id ELSE uuid]
      b == IF type \in {"courses", "sessions"}
           THEN [a EXCEPT !.teacherIds = CoerceIds(item.teacherIds),
                          !.assistantIds = CoerceIds(item.assistantIds)]
           ELSE [a EXCEPT !.teacherIds = Absent, !.assistantIds = Absent,
                          !.sessionCount = Absent, !.totalHours = Absent,
                          !.sequence = Absent, !.durationHours = Absent]
      c == IF type = "sessions"
           THEN [b EXCEPT
                   !.sequence = IF Truthy(item.sequence)
                                THEN Number(item.sequence) ELSE 0,
                   !.durationHours = IF Truthy(item.durationHours)
                                     THEN Number(item.durationHours) ELSE 0]
           ELSE IF type # "courses"
                THEN [b EXCEPT !.sequence = Absent, !.durationHours = Absent]
                ELSE b
  IN IF type = "courses"
     THEN [c EXCEPT !.sessionCount = 0, !.totalHours = 0]
     ELSE c

\* how many of data[1..i] carry no id
Idless(data, i) == Cardinality({j \in 1..i : ~Truthy(data[j].id)})

ProcessData(type, data, n) ==
  [i \in DOMAIN data |-> ProcessItem(type, data[i], Uuid(n + Idless(data, i)))]

\* what an import counts for in the bound on a behaviour
Records(data) == IF Len(data) = 0 THEN 1 ELSE Len(data)

TableName(type) ==
  IF type \in {"teachers", "assistants"} THEN "people" ELSE type

\* mutant: append puts the imported records in front
ApplyImport_prepends(prev, newItems, mode) ==
  IF mode = "replace" THEN newItems ELSE newItems \o prev

\* the collection the local apply leaves for the imported kind
ApplyImport(prev, newItems, mode) ==
  IF mode = "replace" THEN newItems ELSE prev \o newItems

ImportData(type, data, mode) ==
  /\ CanIssue(Records(data))
  /\ LET processedData == ProcessData(type, data, uuids)
         newSessions == IF type = "sessions"
                        THEN ApplyImport(sessions, processedData, mode)
                        ELSE sessions
         newCourses == IF type = "courses"
                       THEN ApplyImport(courses, processedData, mode)
                       ELSE courses
     IN /\ teachers' = IF type = "teachers"
                       THEN ApplyImport(teachers, processedData, mode)
                       ELSE teachers
        /\ assistants' = IF type = "assistants"
                         THEN ApplyImport(assistants, processedData, mode)
                         ELSE assistants
        /\ sessions' = newSessions
        /\ courses' = IF type = "sessions"
                      THEN RecomputeAll(newCourses, newSessions)
                      ELSE newCourses
        /\ Issue(Task("importData",
                      IF mode = "replace" THEN "impDelete" ELSE "impInsert",
                      TableName(type), processedData, Absent,
                      CASE type = "teachers" -> "Teacher"
                        [] type = "assistants" -> "TA"
                        [] OTHER -> "none"), Records(data))
  /\ uuids' = uuids + Idless(data, Len(data))
  /\ last' = Ev("importData", type, NoItem, data, mode, "call", "none", "none")
  /\ UNCHANGED <<scheduleParams, isLoading, remote, reads>>

\* mutant: the replace-mode delete of people is not scoped by type
ScopedDelete_unscoped(T, table, ptype) == {}

\* the rows the replace-mode delete leaves in the table
ScopedDelete(T, table, ptype) ==
  IF table = "people" THEN {r \in T : r.type # ptype} ELSE {}

\* A remote step of importData settles. The delete is awaited and its
\* result dropped; an error result of the insert is thrown; whatever is
\* thrown inside the try schedules the alert.
ImportSettle(i, out) ==
  /\ i \in DOMAIN inflight
  /\ inflight[i].pc \in {"impDelete", "impInsert"}
  /\ LET t == inflight[i]
         T == remote[t.table]
     IN IF t.pc = "impDelete"
        THEN /\ remote' = IF out # "ok" THEN remote
                          ELSE [remote EXCEPT ![t.table] =
                                  ScopedDelete(T, t.table, t.ptype)]
             /\ inflight' = IF out = "throw" THEN RemoveAt(inflight, i)
                            ELSE [inflight EXCEPT ![i].pc = "impInsert"]
             /\ last' = Settled(t.fn, t.ptype, t.pc, out,
                                 IF out = "throw" THEN "alert" ELSE "none")
        ELSE /\ out = "ok" => InsertOk(T, t.rows)
             /\ remote' = IF out # "ok" THEN remote
                          ELSE [remote EXCEPT ![t.table] = RInsert(T, t.rows)]
             /\ inflight' = RemoveAt(inflight, i)
             /\ last' = Settled(t.fn, t.ptype, t.pc, out,
                                 IF out = "ok" THEN "none" ELSE "alert")
  /\ UNCHANGED <<scheduleParams, isLoading, local, reads, uuids, work>>

\* ------------------------------------------------------------ import data
Batches(S) == UNION {[1..n -> S] : n \in 0..MaxWork}

\* The records an import may be given: with and without an id, with an id
\* a remote row already has, with stray and with missing fields.
RawPeople ==
  {Person(1, "Teacher", 2), Person(2, "Teacher", 2),
   Item(Absent, "TA", 1, Absent, 1, EmptyArr + 1, 3, 999, 2, 1500)}
RawCourses ==
  {Item(1, "none", 2, Absent, 1, Absent, 3, 999, Absent, Absent),
   Item(Absent, "none", 1, Absent, Absent, EmptyArr + 1, Absent, Absent, Absent, Absent)}
RawSessions ==
  {Item(1, "none", 1, 1, EmptyArr + 1, EmptyArr, Absent, Absent, 1, 1500),
   Item(Absent, "none", 1, 1, Absent, Absent, Absent, Absent, Absent, Absent),
   Item(2, "none", 1, 2, 1, Absent, Absent, Absent, NonNumeric, NonNumeric)}

RawOf(type) ==
  CASE type \in {"teachers", "assistants"} -> RawPeople
    [] type = "courses" -> RawCourses
    [] type = "sessions" -> RawSessions

\* ------------------------------------------------------- remote contents
PRows == {Person(1, "Teacher", 1), Person(2, "TA", 1)}
\* the stats a course row holds remotely may be stale
CRows == {Course(1, 1, 0, 0), Course(2, 1, 5, 999)}
AllDBs == {DB({Person(2, "TA", 1)}, {Course(1, 1, 5, 999)}, {Session(1, 1, 1500)})}
SessionDBs == {DB({}, CRows, S) : S \in {{}, {Session(1, 1, 1500)}}}

EmptyDBs == {DB({}, {}, {})}
PeopleDBs == {DB(PRows, {}, {})}
CourseDBs == {DB({}, CRows, {Session(2, 2, 2333)})}

\* ---------------------------------------------------------- specification
PersonOps ==
  \/ \E p \in PersonPayloads : AddPerson(p)
  \/ \E p \in PersonPayloads : UpdatePerson(p)
  \/ \E id \in Ids : DeletePerson(id)

CourseOps ==
  \/ \E c \in CoursePayloads : AddCourse(c)
  \/ \E c \in CoursePayloads : UpdateCourse(c)
  \/ \E id \in Ids : DeleteCourse(id)

SessionOps ==
  \/ \E s \in SessionPayloads : AddSession(s)
  \/ \E s \in SessionPayloads : UpdateSession(s)
  \/ \E id \in Ids : DeleteSession(id)

Import(K) ==
  \E type \in K, mode \in Modes :
    \E data \in Batches(RawOf(type)) : ImportData(type, data, mode)
ImportOps == Import(Kinds)

ScheduleOps == \E params \in ParamPayloads : UpdateScheduleParams(params)

SettleWrite == \E i \in 1..MaxInflight, out \in Outcomes : WriteSettle(i, out)
SettleDeleteCourse == \E i \in 1..MaxInflight, out \in Outcomes : DeleteCourseSettle(i, out)
SettleImport == \E i \in 1..MaxInflight, out \in Outcomes : ImportSettle(i, out)

\* every read succeeds
LoaderOk == \E t \in Tables : ReadSettle(t, "ok")

Init == InitWith(AllDBs)

Next ==
  \/ Loader
  \/ PersonOps \/ CourseOps \/ SessionOps \/ ImportOps \/ ScheduleOps
  \/ SettleWrite \/ SettleDeleteCourse \/ SettleImport

Spec == Init /\ [][Next]_vars

\* Session operations only, from a loaded state: the courses' stats are
\* those fetchData computed and the session ids are those of the remote
\* table, one row per id.
SessionNext == LoaderOk \/ SessionOps \/ SettleWrite
SessionSpec == InitWith(SessionDBs) /\ [][SessionNext]_vars

\* Course and session operations, no import: ids stay unique, and a course
\* payload may carry stats that are not those of its sessions.
CourseNext ==
  \/ LoaderOk
  \/ CourseOps \/ SessionOps
  \/ SettleWrite \/ SettleDeleteCourse
CourseSpec == InitWith(SessionDBs) /\ [][CourseNext]_vars

\* Imports of teachers, assistants and sessions in both modes, into empty
\* collections.
ImportNext ==
  LoaderOk \/ Import({"teachers", "assistants", "sessions"}) \/ SettleImport
ImportSpec == InitWith(EmptyDBs) /\ [][ImportNext]_vars

\* Imports of teachers and assistants in both modes, from a loaded state
\* with a teacher and an assistant.
PeopleImportNext == LoaderOk \/ Import({"teachers", "assistants"}) \/ SettleImport
PeopleImportSpec == InitWith(PeopleDBs) /\ [][PeopleImportNext]_vars

\* Imports of courses and sessions in both modes, from a loaded state with
\* two courses, one of which has a session.
SessionImportNext == LoaderOk \/ Import({"courses", "sessions"}) \/ SettleImport
SessionImportSpec == InitWith(CourseDBs) /\ [][SessionImportNext]_vars

\* Every mutation with one payload each, and imports of one record without
\* an id of every kind in both modes, from the loaded state of Init.
OneOfEach ==
  \/ AddPerson(Person(1, "Teacher", 2))
  \/ UpdatePerson(Person(2, "TA", 2))
  \/ DeletePerson(2)
  \/ AddCourse(Course(2, 1, 0, 0))
  \/ UpdateCourse(Course(1, 2, 3, 999))
  \/ DeleteCourse(1)
  \/ AddSession(Session(2, 1, 2333))
  \/ UpdateSession(Session(1, 2, 1500))
  \/ DeleteSession(1)
  \/ \E type \in Kinds, mode \in Modes :
       \E x \in {r \in RawOf(type) : r.id = Absent} : ImportData(type, <<x>>, mode)
MutationNext ==
  LoaderOk \/ OneOfEach \/ SettleWrite \/ SettleDeleteCourse \/ SettleImport
MutationSpec == Init /\ [][MutationNext]_vars

\* Imports of every kind in both modes, of records that are new to the
\* loaded state of Init, and changes of the schedule parameters.
ApplyImports ==
  \E type \in Kinds, mode \in Modes :
    \E data \in Batches({r \in RawOf(type) : r.id # 1}) : ImportData(type, data, mode)
ApplyNext == LoaderOk \/ ApplyImports \/ ScheduleOps \/ SettleImport
ApplySpec == Init /\ [][ApplyNext]_vars

\* Operations issued one at a time, each only when no remote call is in
\* flight, and every read and every remote call succeeding.
SerialIssue ==
  inflight = <<>> /\ (PersonOps \/ CourseOps \/ SessionOps \/ ImportOps)
SettleOk ==
  \E i \in 1..MaxInflight :
    \/ WriteSettle(i, "ok")
    \/ DeleteCourseSettle(i, "ok")
    \/ ImportSettle(i, "ok")
SerialNext == LoaderOk \/ SerialIssue \/ SettleOk
SerialSpec == Init /\ [][SerialNext]_vars

\* The Loader and the person operations, every read settling in the end:
\* a pending read is a request the storage collaborator answers.
LoadNext == Loader \/ PersonOps \/ SettleWrite
LoadSpec == Init /\ [][LoadNext]_vars /\ WF_vars(Loader)

\* The Aggregator on its own: recalculateCourseStats applied to any courses
\* (whatever stats they hold, ids repeated or not) and any sessions (with
\* and without a numeric duration), for any target.
Lists(S) == UNION {[1..n -> S] : n \in 0..MaxLen}
AnyCourses == {Course(i, 1, st[1], st[2]) : i \in Ids, st \in {<<0, 0>>, <<3, 999>>}}
AnySessions == {Session(1, c, d) : c \in Ids, d \in Durations \cup {NonNumeric}}

RecalcInit ==
  /\ isLoading = FALSE
  /\ scheduleParams = InitialParams
  /\ teachers = <<>> /\ assistants = <<>>
  /\ courses \in Lists(AnyCourses)
  /\ sessions \in Lists(AnySessions)
  /\ remote = DB({}, {}, {})
  /\ reads = Done
  /\ inflight = <<>>
  /\ uuids = 0
  /\ work = 0
  /\ last = Call("mount", NoItem)

Recalculate(courseId) ==
  /\ courses' = recalculateCourseStats(courses, sessions, courseId)
  /\ last' = Call("recalculateCourseStats", Person(courseId, "none", Absent))
  /\ UNCHANGED <<scheduleParams, isLoading, teachers, assistants, sessions, remote, reads,
                 inflight, uuids, work>>

RecalcNext == \E courseId \in Ids : Recalculate(courseId)
RecalcSpec == RecalcInit /\ [][RecalcNext]_vars

\* --------------------------------------------------------------- the claims
\* The aggregate of a course, stated from the data model: the number of
\* local sessions whose courseId is the course's id, and the sum of their
\* durations (a missing or non-numeric duration counts 0) rounded to the
\* nearest hundredth of an hour.
Hours(d) == IF d > 0 THEN d ELSE 0
RECURSIVE SumOver(_, _)
SumOver(ss, I) ==
  IF I = {} THEN 0
  ELSE LET i == CHOOSE j \in I : TRUE
       IN Hours(ss[i].durationHours) + SumOver(ss, I \ {i})
Of(ss, cid) == {i \in DOMAIN ss : ss[i].courseId = cid}
Round2(x) ==
  CHOOSE h \in {x \div 10, x \div 10 + 1} : 10 * h - 5 <= x /\ x < 10 * h + 5
Derived(c, ss) ==
  /\ c.sessionCount = Cardinality(Of(ss, c.id))
  /\ c.totalHours = Round2(SumOver(ss, Of(ss, c.id)))
StatsDerived(cs, ss) == \A i \in DOMAIN cs : Derived(cs[i], ss)

\* C1: under session add / update / delete from a loaded state with unique
\* session ids, every local course's sessionCount is the number of local
\* sessions of that course and its totalHours the rounded sum of their
\* durations, in every state.
C1_SessionOpsKeepStats == StatsDerived(courses, sessions)

\* C1's case: two sessions of 1.5 h and 2.333 h were added to a course that
\* had none: sessionCount 2, totalHours 3.83.
C1_Witness ==
  /\ last.fn = "addSession" /\ work = 2
  /\ Len(sessions) = 2
  /\ {sessions[1].durationHours, sessions[2].durationHours} = {1500, 2333}
  /\ \E i \in DOMAIN courses :
       /\ sessions[1].courseId = courses[i].id
       /\ sessions[2].courseId = courses[i].id
       /\ courses[i].sessionCount = 2 /\ courses[i].totalHours = 383

\* C2: once loading has finished, whatever operations have run, every
\* local course's sessionCount and totalHours are the count and the rounded
\* duration sum of the local sessions of that course.
C2_StatsAlwaysDerived == ~isLoading => StatsDerived(courses, sessions)

\* the step just taken is a call of handler fn
Called(fn) == last'.fn = fn /\ last'.pc = "call"

\* C2's case: a replace import of courses stored course 1 with sessionCount
\* 0 and totalHours 0 while the local session of course 1 is still there.
C2_Witness ==
  /\ last.fn = "importData" /\ last.pc = "call" /\ last.kind = "courses"
  /\ \E j \in DOMAIN courses, i \in DOMAIN sessions :
       /\ sessions[i].courseId = courses[j].id
       /\ sessions[i].durationHours = 1500
       /\ courses[j].sessionCount = 0 /\ courses[j].totalHours = 0

\* C3: a deleteCourse(id) step removes the courses with that id and exactly
\* the sessions whose courseId is id; every other session and every other
\* course (with its stats) stays as it was, in place.
C3_DeleteCourseFrame ==
  [][Called("deleteCourse") =>
       LET id == last'.item.id
       IN /\ \A j \in DOMAIN courses' : courses'[j].id # id
          /\ \A j \in DOMAIN sessions' : sessions'[j].courseId # id
          /\ sessions' = SelectSeq(sessions, LAMBDA x: x.courseId # id)
          /\ courses' = SelectSeq(courses, LAMBDA c: c.id # id)
          /\ UNCHANGED <<teachers, assistants>>]_vars

\* C3's case: a session was added to course 2, then course 1, which had a
\* session, was deleted: course 2 and its session remain.
C3_Witness ==
  /\ last.fn = "deleteCourse" /\ last.pc = "call" /\ work = 2
  /\ last.item.id = 1
  /\ Session(1, 1, 1500) \in remote.sessions
  /\ Len(courses) = 1 /\ Len(sessions) = 1
  /\ courses[1].id = 2 /\ sessions[1].courseId = 2
  /\ courses[1].sessionCount = 1

OfType(T, ptype) == {r \in T : r.type = ptype}

\* C5: a replace import of teachers leaves the local assistants as they
\* were, and no remote step of a teachers import removes or changes a
\* people row of type TA; the same with teachers and assistants exchanged.
C5_ReplaceKeepsOtherType ==
  [][/\ (Called("importData") /\ last'.mode = "replace") =>
          /\ last'.kind = "teachers" => assistants' = assistants
          /\ last'.kind = "assistants" => teachers' = teachers
     /\ (last'.fn = "importData" /\ last'.pc \in {"impDelete", "impInsert"}) =>
          /\ last'.kind = "Teacher" =>
               OfType(remote.people, "TA") \subseteq remote'.people
          /\ last'.kind = "TA" =>
               OfType(remote.people, "Teacher") \subseteq remote'.people]_vars

\* C5's case: a replace import of teachers has deleted the teacher rows and
\* inserted its own; the assistant is still there, locally and remotely.
C5_Witness ==
  /\ last.fn = "importData" /\ last.pc = "impInsert" /\ last.out = "ok"
  /\ last.kind = "Teacher"
  /\ Person(1, "Teacher", 1) \notin remote.people
  /\ Person(1, "Teacher", 2) \in remote.people
  /\ Person(2, "TA", 1) \in remote.people
  /\ assistants = <<Person(2, "TA", 1)>>
  /\ teachers = <<Person(1, "Teacher", 2)>>

\* the six fields a person record must not carry
Stripped(x) ==
  /\ x.teacherIds = Absent /\ x.assistantIds = Absent
  /\ x.sessionCount = Absent /\ x.totalHours = Absent
  /\ x.sequence = Absent /\ x.durationHours = Absent

\* what is stored for input record r imported as kind
Normalized(kind, r, x) ==
  /\ kind = "sessions" =>
       /\ r.sequence = Absent => x.sequence = 0
       /\ r.durationHours = Absent => x.durationHours = 0
  /\ kind \in {"teachers", "assistants"} => Stripped(x)

\* the local collection of a kind
LocalOf(kind, t, a, c, ss) ==
  CASE kind = "teachers" -> t
    [] kind = "assistants" -> a
    [] kind = "courses" -> c
    [] kind = "sessions" -> ss

\* C6: an importData step stores each input record, in the local collection
\* of its kind and in the rows it sends to the remote table, with sequence
\* and durationHours 0 where a session record had none, and without the
\* six course / session fields where it is a teacher or assistant record.
C6_ImportNormalizes ==
  [][Called("importData") =>
       LET data == last'.data
           kind == last'.kind
           n == Len(data)
           sent == inflight'[Len(inflight')].rows
           coll == LocalOf(kind, teachers', assistants', courses', sessions')
       IN /\ Len(sent) = n /\ Len(coll) >= n
          /\ \A i \in 1..n :
               /\ Normalized(kind, data[i], sent[i])
               /\ Normalized(kind, data[i], coll[Len(coll) - n + i])]_vars

\* C6's case: an assistant record that came with teacherIds, sessionCount
\* and durationHours is stored, locally and remotely, without them; then a
\* session record without sequence and durationHours is imported and both
\* are 0 locally and in the rows being sent.
C6_Witness ==
  /\ last.fn = "importData" /\ last.pc = "call" /\ last.kind = "sessions"
  /\ Len(last.data) = 1
  /\ last.data[1].sequence = Absent /\ last.data[1].durationHours = Absent
  /\ sessions[Len(sessions)].sequence = 0
  /\ sessions[Len(sessions)].durationHours = 0
  /\ Len(inflight) = 1
  /\ inflight[1].rows[1].sequence = 0 /\ inflight[1].rows[1].durationHours = 0
  /\ \E i \in DOMAIN assistants :
       assistants[i].id = Uuid(1) /\ Stripped(assistants[i])
  /\ \E r \in remote.people : r.id = Uuid(1) /\ Stripped(r)

\* C7: an importData step of kind sessions, in either mode, leaves every
\* local course with the aggregate over the new local session collection.
C7_SessionImportRecomputesAll ==
  [][(Called("importData") /\ last'.kind = "sessions") =>
       StatsDerived(courses', sessions')]_vars

\* C7's case: a replace import of two sessions of course 1, one of 1.5 h and
\* one without durationHours: course 1 has 2 sessions and 1.5 h; course 2,
\* which no imported record refers to and whose session is gone, has none.
C7_Witness ==
  /\ last.fn = "importData" /\ last.pc = "call" /\ last.kind = "sessions"
  /\ last.mode = "replace" /\ Len(last.data) = 2
  /\ \E i \in 1..2 : last.data[i].durationHours = Absent
  /\ \E i \in 1..2 : last.data[i].durationHours = 1500
  /\ \A i \in 1..2 : sessions[i].courseId = 1
  /\ Session(2, 2, 2333) \in remote.sessions
  /\ \E j \in DOMAIN courses :
       /\ courses[j].id = 1
       /\ courses[j].sessionCount = 2 /\ courses[j].totalHours = 150
  /\ \E j \in DOMAIN courses :
       /\ courses[j].id = 2
       /\ courses[j].sessionCount = 0 /\ courses[j].totalHours = 0

Mutators ==
  {"addPerson", "updatePerson", "deletePerson", "addCourse", "updateCourse",
   "deleteCourse", "addSession", "updateSession", "deleteSession"}

\* C8: when the remote write of an add / update / delete fails, the step
\* leaves the local snapshot as it was and raises nothing to the caller.
C8_FailedWriteIsSilent ==
  [][(last'.fn \in Mutators /\ last'.out \in {"error", "throw"}) =>
       (UNCHANGED local /\ last'.effect # "reject")]_vars

\* C8's case: the remote insert of addPerson rejected; nothing caught it.
C8_Witness ==
  /\ last.fn = "addPerson" /\ last.pc = "insert"
  /\ last.out = "throw" /\ last.effect = "reject"

\* C9: when a remote step of importData fails, the step leaves the local
\* snapshot as it was and schedules the notification.
C9_FailedImportNotifies ==
  [][(last'.fn = "importData" /\ last'.out \in {"error", "throw"}) =>
       (UNCHANGED local /\ last'.effect = "alert")]_vars

\* C9's case: the replace-mode delete came back with an error; the import
\* goes on to its insert and nothing is scheduled.
C9_Witness ==
  /\ last.fn = "importData" /\ last.pc = "impDelete"
  /\ last.out = "error" /\ last.effect = "none"
  /\ \E i \in DOMAIN inflight : inflight[i].pc = "impInsert"

\* the local collections hold the rows data read from table t
Populated(t, data, tch, ast, cs, ss) ==
  CASE t = "people" ->
         /\ tch = SelectSeq(data, LAMBDA p: p.type = "Teacher")
         /\ ast = SelectSeq(data, LAMBDA p: p.type = "TA")
    [] t = "courses" ->
         /\ Len(cs) = Len(data)
         /\ \A i \in DOMAIN data : cs[i].id = data[i].id
    [] t = "sessions" -> ss = data

\* C10: when the Loader finishes, every collection whose read succeeded
\* holds the rows that read fetched, however the other reads ended.
C10_FailedReadEmptiesOnlyItself ==
  [][(isLoading /\ ~isLoading') =>
       \A t \in Tables :
         /\ (t # last'.kind /\ reads[t].st = "ok") =>
              Populated(t, reads[t].data,
                        teachers', assistants', courses', sessions')
         /\ (t = last'.kind /\ last'.out = "ok") =>
              \E data \in Orders(remote[t]) :
                Populated(t, data,
                          teachers', assistants', courses', sessions')]_vars

SansStats(c) == [c EXCEPT !.sessionCount = 0, !.totalHours = 0]

\* C12: recalculateCourseStats leaves the sessions and every course that is
\* not the target as they are, keeps every field of the target but
\* sessionCount and totalHours, and is idempotent: applied to its own result
\* with the same sessions and target, by a second call or in place, it
\* returns that result.
C12_RecalculateIdempotent ==
  [][Called("recalculateCourseStats") =>
       LET id == last'.item.id
       IN /\ sessions' = sessions
          /\ Len(courses') = Len(courses)
          /\ \A i \in DOMAIN courses :
               /\ courses[i].id # id => courses'[i] = courses[i]
               /\ SansStats(courses'[i]) = SansStats(courses[i])
          /\ recalculateCourseStats(courses', sessions', id) = courses'
          /\ (last.fn = "recalculateCourseStats" /\ last.item.id = id) =>
               courses' = courses]_vars

\* C12's case: course 1 held 3 sessions / 9.99 h and has two sessions of
\* 1.5 h and 2.333 h: it now holds 2 / 3.83, and course 2 still holds its
\* 3 / 9.99.
C12_Witness ==
  /\ last.fn = "recalculateCourseStats" /\ last.item.id = 1
  /\ Len(sessions) = 2
  /\ {sessions[1].durationHours, sessions[2].durationHours} = {1500, 2333}
  /\ sessions[1].courseId = 1 /\ sessions[2].courseId = 1
  /\ courses = <<Course(1, 1, 2, 383), Course(2, 1, 3, 999)>>

\* C13: every mutation applies its local change in the step that issues its
\* first remote call, which leaves the remote tables as they were and puts
\* exactly one call in flight; no later step of the operation, however its
\* calls settle, changes the local state, so the local state a mutation
\* reaches is the same whether its call succeeds, fails or stays in flight;
\* and while calls are in flight every operation that needs no fresh id can
\* still be issued (within the bound of the behaviour).
C13_LocalFirst ==
  /\ [][last'.pc = "call" /\ last'.fn \in Mutators \cup {"importData"} =>
          /\ remote' = remote
          /\ Len(inflight') = Len(inflight) + 1
          /\ SubSeq(inflight', 1, Len(inflight)) = inflight
          /\ inflight'[Len(inflight')].fn = last'.fn
          /\ inflight'[Len(inflight')].pc \in
               {"insert", "update", "delete", "delSessions", "impDelete", "impInsert"}]_vars
  /\ [][last'.pc # "call" /\ last'.fn \in Mutators \cup {"importData"} =>
          /\ local' = local
          /\ Len(inflight') <= Len(inflight)]_vars
  /\ [](inflight # <<>> /\ CanIssue(1) =>
          /\ ENABLED UpdatePerson(Person(1, "Teacher", 1))
          /\ ENABLED DeletePerson(1)
          /\ ENABLED UpdateCourse(Course(1, 1, 0, 0))
          /\ ENABLED DeleteCourse(1)
          /\ ENABLED UpdateSession(Session(1, 1, 1500))
          /\ ENABLED DeleteSession(1)
          /\ ENABLED ImportData("teachers", <<>>, "append"))

\* C13's case: addPerson was issued while the insert of addCourse was still
\* in flight; both records are in the local state and neither is remote.
C13_Witness ==
  /\ last.fn = "addPerson" /\ last.pc = "call" /\ last.item = Person(1, "Teacher", 2)
  /\ Len(inflight) = 2 /\ inflight[1].fn = "addCourse" /\ inflight[2].fn = "addPerson"
  /\ \E i \in DOMAIN teachers : teachers[i] = Person(1, "Teacher", 2)
  /\ \E j \in DOMAIN courses : courses[j].id = 2
  /\ \A r \in remote.people : r.id # 1
  /\ \A r \in remote.courses : r.id # 2

\* how many calls in flight are at step pc for key id
AtPc(q, pc, id) == Cardinality({i \in DOMAIN q : q[i].pc = pc /\ q[i].key = id})

\* C14: deleteCourse(id) first puts the delete of the sessions of course id
\* in flight and nothing else; a course delete for id comes into flight only
\* in the step in which a sessions delete for id settles, and takes its
\* place; the remote course row goes only when that course delete settles.
C14_SessionsDeleteFirst ==
  /\ [][\A id \in Ids :
          Called("deleteCourse") /\ last'.item.id = id =>
            /\ AtPc(inflight', "delSessions", id) = AtPc(inflight, "delSessions", id) + 1
            /\ inflight'[Len(inflight')].table = "sessions"
            /\ AtPc(inflight', "delCourse", id) = AtPc(inflight, "delCourse", id)
            /\ remote' = remote]_vars
  /\ [][\A id \in Ids :
          AtPc(inflight', "delCourse", id) > AtPc(inflight, "delCourse", id) =>
            /\ last'.fn = "deleteCourse" /\ last'.pc = "delSessions"
            /\ last'.out \in {"ok", "error"}
            /\ AtPc(inflight', "delCourse", id) = AtPc(inflight, "delCourse", id) + 1
            /\ AtPc(inflight', "delSessions", id) = AtPc(inflight, "delSessions", id) - 1
            /\ Len(inflight') = Len(inflight)
            /\ remote'.courses = remote.courses]_vars
  /\ [][\A id \in Ids :
          (\E r \in remote.courses : r.id = id) /\ (\A r \in remote'.courses : r.id # id) =>
            /\ last'.fn = "deleteCourse" /\ last'.pc = "delCourse" /\ last'.out = "ok"
            /\ AtPc(inflight', "delCourse", id) = AtPc(inflight, "delCourse", id) - 1]_vars

\* C14's case: the sessions delete of deleteCourse(1) has settled and its
\* course delete is now in flight, the remote course row still there.
C14_Witness ==
  /\ last.fn = "deleteCourse" /\ last.pc = "delSessions" /\ last.out = "ok"
  /\ AtPc(inflight, "delCourse", 1) = 1 /\ AtPc(inflight, "delSessions", 1) = 0
  /\ \E r \in remote.courses : r.id = 1
  /\ \A r \in remote.sessions : r.courseId # 1
  /\ 1 \notin IdsOf(courses)

\* C15: when the course delete of deleteCourse(id) settles, whichever way it
\* and the sessions delete before it went, the remote sessions table holds
\* no row of course id unless the remote course row is still there.
C15_NoOrphanedSessions ==
  [][\A id \in Ids :
       /\ last'.fn = "deleteCourse" /\ last'.pc = "delCourse"
       /\ AtPc(inflight', "delCourse", id) < AtPc(inflight, "delCourse", id)
       => \/ \A r \in remote'.sessions : r.courseId # id
          \/ \E c \in remote'.courses : c.id = id]_vars

\* C15's case: both calls of deleteCourse(1) have settled, the course delete
\* with success, nothing else was issued, and a remote session of course 1
\* is left without its course.
C15_Witness ==
  /\ last.fn = "deleteCourse" /\ last.pc = "delCourse" /\ last.out = "ok"
  /\ work = 1 /\ inflight = <<>>
  /\ \A c \in remote.courses : c.id # 1
  /\ \E r \in remote.sessions : r.courseId = 1

\* the rows of table T a replace import of the kind is about
Scope(T, table, ptype) == IF table = "people" THEN OfType(T, ptype) ELSE T

\* C16: a replace import puts its delete in flight first and an append
\* import only its insert; a delete step that raises no notification leaves
\* the scope of the import empty remotely and hands over to the insert; an
\* insert step that raises no notification adds exactly the normalized
\* records: after a replace import that raised no notification the remote
\* scope holds exactly the normalized records.
C16_ReplaceSync ==
  /\ [][Called("importData") =>
          LET t == inflight'[Len(inflight')]
          IN /\ Len(inflight') = Len(inflight) + 1
             /\ t.pc = (IF last'.mode = "replace" THEN "impDelete" ELSE "impInsert")
             /\ t.table = TableName(last'.kind)
             /\ t.rows = LocalOf(last'.kind, SubSeq(teachers', Len(teachers') - Len(t.rows) + 1, Len(teachers')),
                                 SubSeq(assistants', Len(assistants') - Len(t.rows) + 1, Len(assistants')),
                                 SubSeq(courses', Len(courses') - Len(t.rows) + 1, Len(courses')),
                                 SubSeq(sessions', Len(sessions') - Len(t.rows) + 1, Len(sessions')))
             /\ remote' = remote]_vars
  /\ [][last'.fn = "importData" /\ last'.pc = "impDelete" /\ last'.effect = "none" =>
          \E i \in DOMAIN inflight :
            LET t == inflight[i]
            IN /\ t.pc = "impDelete"
               /\ inflight' = [inflight EXCEPT ![i].pc = "impInsert"]
               /\ Scope(remote'[t.table], t.table, t.ptype) = {}
               /\ remote'[t.table] = remote[t.table] \ Scope(remote[t.table], t.table, t.ptype)]_vars
  /\ [][last'.fn = "importData" /\ last'.pc = "impInsert" /\ last'.effect = "none" =>
          \E i \in DOMAIN inflight :
            LET t == inflight[i]
            IN /\ t.pc = "impInsert"
               /\ inflight' = RemoveAt(inflight, i)
               /\ remote'[t.table] = remote[t.table] \cup {ToRow(t.rows[j]) : j \in DOMAIN t.rows}]_vars

\* C16's case: the only operation issued was a replace import of one
\* session; its sync has ended without a notification and the remote
\* sessions table holds the old row beside the imported one.
C16_Witness ==
  /\ last.fn = "importData" /\ last.pc = "impInsert"
  /\ last.out = "ok" /\ last.effect = "none"
  /\ work = 1 /\ inflight = <<>>
  /\ Len(sessions) = 1 /\ sessions[1].id = 1
  /\ Session(2, 2, 2333) \in remote.sessions
  /\ \E r \in remote.sessions : r.id = 1

\* row r holds every field the update payload u defines
Carries(r, u) ==
  /\ u.type # "none" => r.type = u.type
  /\ u.tag # Absent => r.tag = u.tag
  /\ u.courseId # Absent => r.courseId = u.courseId
  /\ u.sessionCount # Absent => r.sessionCount = u.sessionCount
  /\ u.totalHours # Absent => r.totalHours = u.totalHours
  /\ u.durationHours # Absent => r.durationHours = u.durationHours

\* the local collections an update of the entity may find its record in
HeldIn(fn, t, a, c, ss) ==
  CASE fn = "updatePerson" -> t \o a
    [] fn = "updateCourse" -> c
    [] fn = "updateSession" -> ss

\* C17: an update, issued with or without earlier calls in flight, leaves
\* the local record of its id equal to its payload (locally the update
\* issued last wins); an update whose remote write completes leaves the
\* remote row of its id carrying its payload (remotely the write completed
\* last wins); and once nothing is in flight no step but a new operation
\* changes anything, so a difference between local and remote stays.
C17_IssueOrderVsCompletionOrder ==
  /\ [][\A fn \in {"updatePerson", "updateCourse", "updateSession"} :
          Called(fn) =>
            LET before == HeldIn(fn, teachers, assistants, courses, sessions)
                after == HeldIn(fn, teachers', assistants', courses', sessions')
            IN /\ Len(after) = Len(before)
               /\ \A i \in DOMAIN before :
                    after[i] = IF before[i].id = last'.item.id
                               THEN last'.item ELSE before[i]]_vars
  /\ [][last'.pc = "update" /\ last'.out = "ok" =>
          \E i \in DOMAIN inflight :
            LET t == inflight[i]
            IN /\ t.pc = "update"
               /\ inflight' = RemoveAt(inflight, i)
               /\ \A r \in remote'[t.table] : r.id = t.key => Carries(r, t.rows[1])]_vars
  /\ [][inflight = <<>> /\ ~isLoading => last'.pc = "call" /\ remote' = remote]_vars

\* C17's case: updatePerson({id: 2, type: 'Teacher'}) was issued while the
\* write of updatePerson({id: 2, type: 'TA', tag 2}) is still in flight, and
\* the local record is still the payload of the first update.
C17_Witness ==
  /\ last = Call("updatePerson", Person(2, "Teacher", 1))
  /\ Len(inflight) = 2
  /\ inflight[1].fn = "updatePerson" /\ inflight[1].key = 2
  /\ inflight[1].rows = <<WithoutId(Person(2, "TA", 2))>>
  /\ inflight[2].rows = <<WithoutId(Person(2, "Teacher", 1))>>
  /\ assistants = <<Person(2, "TA", 2)>> /\ teachers = <<>>

\* C18: updatePerson(p) replaces by p every local record with p's id, in
\* teachers or in assistants, whatever type p carries, and leaves every
\* other record of both collections as it was.
C18_UpdatePersonWhereHeld ==
  [][Called("updatePerson") =>
       LET p == last'.item
       IN /\ Len(teachers') = Len(teachers) /\ Len(assistants') = Len(assistants)
          /\ \A i \in DOMAIN teachers :
               teachers'[i] = IF teachers[i].id = p.id THEN p ELSE teachers[i]
          /\ \A i \in DOMAIN assistants :
               assistants'[i] = IF assistants[i].id = p.id THEN p ELSE assistants[i]]_vars

\* C18's case: the only operation issued is updatePerson with the id of the
\* assistant and type 'Teacher', and the assistant's record is as loaded.
C18_Witness ==
  /\ last = Call("updatePerson", Person(2, "Teacher", 2))
  /\ work = 1
  /\ assistants = <<Person(2, "TA", 1)>> /\ teachers = <<>>

\* C19: in every reachable state every local teacher has type 'Teacher' and
\* every local assistant type 'TA', and no step changes the type of a person
\* the local state holds before and after it.
C19_TypePartition ==
  /\ [](/\ \A i \in DOMAIN teachers : teachers[i].type = "Teacher"
        /\ \A i \in DOMAIN assistants : assistants[i].type = "TA")
  /\ [][\A i \in DOMAIN (teachers \o assistants) :
          \A j \in DOMAIN (teachers' \o assistants') :
            (teachers \o assistants)[i].id = (teachers' \o assistants')[j].id =>
              (teachers \o assistants)[i].type = (teachers' \o assistants')[j].type]_vars

\* C19's case: an import of assistants has stored a record of type 'Teacher'
\* in the local assistants collection.
C19_Witness ==
  /\ last.fn = "importData" /\ last.kind = "assistants" /\ last.pc = "call"
  /\ \E i \in DOMAIN assistants :
       /\ assistants[i].type = "Teacher"
       /\ \E k \in DOMAIN last.data : last.data[k].id = assistants[i].id

\* C20: updateCourse(c) leaves sessionCount and totalHours of every stored
\* course as they were before the call; the course addCourse stores and
\* every course a courses import stores has both equal to 0.
C20_StatsNotCallerWritten ==
  /\ [][Called("updateCourse") =>
          /\ Len(courses') = Len(courses)
          /\ \A i \in DOMAIN courses :
               /\ courses'[i].sessionCount = courses[i].sessionCount
               /\ courses'[i].totalHours = courses[i].totalHours]_vars
  /\ [][Called("addCourse") =>
          /\ Len(courses') = Len(courses) + 1
          /\ courses'[Len(courses')].id = last'.item.id
          /\ courses'[Len(courses')].sessionCount = 0
          /\ courses'[Len(courses')].totalHours = 0]_vars
  /\ [][Called("importData") /\ last'.kind = "courses" =>
          \A k \in 1..Len(last'.data) :
            LET c == courses'[Len(courses') - Len(last'.data) + k]
            IN c.sessionCount = 0 /\ c.totalHours = 0]_vars

\* C20's case: the only operation issued is updateCourse with sessionCount 3
\* and totalHours 9.99 for the course that has one session of 1.5 hours,
\* and the stored course now carries the caller's numbers.
C20_Witness ==
  /\ last = Call("updateCourse", Course(1, 2, 3, 999))
  /\ work = 1
  /\ courses = <<Course(1, 2, 3, 999)>>
  /\ sessions = <<Session(1, 1, 1500)>>

\* the records of a collection
Held(s) == {s[i] : i \in DOMAIN s}

\* C21: with operations issued one at a time and every remote call
\* succeeding, whenever nothing is in flight the remote tables hold the
\* local records (people = teachers and assistants, sessions = sessions,
\* courses = courses up to sessionCount and totalHours), each once, and
\* what the Loader would set from them is the local state: the teachers
\* are the people rows of type 'Teacher', the assistants those of type
\* 'TA', and the stats of every local course are those of its sessions.
C21_RemoteMirrorsLocal ==
  (inflight = <<>> /\ ~isLoading) =>
    /\ remote.people = Held(teachers \o assistants)
    /\ remote.sessions = Held(sessions)
    /\ {SansStats(r) : r \in remote.courses} = {SansStats(c) : c \in Held(courses)}
    /\ Cardinality(remote.people) = Len(teachers) + Len(assistants)
    /\ Cardinality(remote.sessions) = Len(sessions)
    /\ Cardinality(remote.courses) = Len(courses)
    /\ Held(teachers) = OfType(remote.people, "Teacher")
    /\ Held(assistants) = OfType(remote.people, "TA")
    /\ StatsDerived(courses, sessions)

\* C21's case: the only operation issued, updatePerson with type 'Teacher'
\* for the assistant, has completed with success; nothing is in flight, the
\* remote row is a teacher and the local record is the assistant as loaded.
C21_Witness ==
  /\ last.fn = "updatePerson" /\ last.pc = "update" /\ last.out = "ok"
  /\ inflight = <<>> /\ work = 1
  /\ assistants = <<Person(2, "TA", 1)>> /\ teachers = <<>>
  /\ remote.people = {Person(2, "Teacher", 2)}

\* C22: an importData step leaves the collection of its kind equal to the
\* records it sends to the remote table (replace) or to the previous
\* collection followed by them (append), one record per input record in
\* input order; it leaves the other collections and scheduleParams as they
\* were, except that a sessions import may change the stats, and only the
\* stats, of the courses.
C22_ImportApplyFrame ==
  [][Called("importData") =>
       LET data == last'.data
           kind == last'.kind
           sent == inflight'[Len(inflight')].rows
           prev == LocalOf(kind, teachers, assistants, courses, sessions)
           coll == LocalOf(kind, teachers', assistants', courses', sessions')
       IN /\ Len(sent) = Len(data)
          /\ \A k \in DOMAIN data :
               /\ sent[k].tag = data[k].tag
               /\ data[k].id # Absent => sent[k].id = data[k].id
          /\ coll = (IF last'.mode = "replace" THEN sent ELSE prev \o sent)
          /\ kind # "teachers" => teachers' = teachers
          /\ kind # "assistants" => assistants' = assistants
          /\ kind # "sessions" => sessions' = sessions
          /\ kind \notin {"courses", "sessions"} => courses' = courses
          /\ kind = "sessions" =>
               /\ Len(courses') = Len(courses)
               /\ \A i \in DOMAIN courses : SansStats(courses'[i]) = SansStats(courses[i])
          /\ scheduleParams' = scheduleParams]_vars

\* C22's case: two session records, the second without an id, were imported
\* in append mode after the loaded session; the assistant and the course
\* are still there.
C22_Witness ==
  /\ last.fn = "importData" /\ last.pc = "call"
  /\ last.kind = "sessions" /\ last.mode = "append"
  /\ Len(last.data) = 2 /\ last.data[1].id = 2 /\ last.data[2].id = Absent
  /\ Len(sessions) = 3 /\ sessions[1] = Session(1, 1, 1500)
  /\ sessions[2].id = 2 /\ sessions[3].id = Uuid(1)
  /\ assistants = <<Person(2, "TA", 1)>>
  /\ Len(courses) = 1 /\ courses[1].id = 1 /\ courses[1].sessionCount = 2
  /\ scheduleParams = InitialParams

\* C23: in every state reached from a loaded state in which every session
\* names an existing course, the courseId of every local session is the id
\* of exactly one local course.
C23_SessionsNameOneCourse ==
  \A i \in DOMAIN sessions :
    Cardinality({j \in DOMAIN courses : courses[j].id = sessions[i].courseId}) = 1

\* C23's case: the only operation issued is a replace import of courses
\* that does not bring course 2, and the loaded session of course 2 is
\* still in the local sessions.
C23_Witness ==
  /\ last.fn = "importData" /\ last.pc = "call"
  /\ last.kind = "courses" /\ last.mode = "replace"
  /\ work = 1
  /\ sessions = <<Session(2, 2, 2333)>>
  /\ Len(courses) = 1 /\ courses[1].id = 1

====
